---- MODULE Spec2Model ----
(***************************************************************************)
(* DatosTamanoLlaves (src/tamano_llaves.py): accessor over the table       *)
(* 'tamano_llaves' of tornillos.db.  The table is loaded through           *)
(* SQLitePandasDF.sql_to_df() on the first access, kept in _df_cache and   *)
(* queried by column (metricas, diametros_nominales, tamanos_llave) or by  *)
(* key (diametro_nominal, tamano_llave).                                   *)
(***************************************************************************)
EXTENDS Integers, Sequences, FiniteSets, TLC

VARIABLES
    tabla_db,    \* rows of table 'tamano_llaves' as stored in tornillos.db
    df_cache,    \* self._df_cache: None or the cached DataFrame
    loadCount,   \* number of invocations of sql_to_df() so far
    nCalls,      \* number of accessor calls made so far
    res,         \* the latest accessor call and what it returned or raised
    memo,        \* an earlier accessor call, kept to compare later calls with
    loaderOut,   \* what sql_to_df() did during the latest call, if invoked
    firstLoad,   \* the first table sql_to_df() returned, and at which call
    pc,          \* per thread: position inside _load_dataframe
    sawNone,     \* per thread: line 53 found the cache unset
    tmp,         \* per thread: value of sql_pd.sql_to_df() before it is stored
    ret,         \* per thread: value returned by _load_dataframe
    writeCount   \* number of stores into self._df_cache

vars == <<tabla_db, df_cache, loadCount, nCalls, res, memo, loaderOut, firstLoad,
          pc, sawNone, tmp, ret, writeCount>>

seqVars == <<nCalls, res, memo, loaderOut, firstLoad>>
thrVars == <<pc, sawNone, tmp, ret, writeCount>>

----------------------------------------------------------------------------
\* Bounds of the model.
MaxRows == 2
MaxCalls == 3

\* Values the rows of the table are drawn from.  s_mm = 0 is the value the
\* table stores for a metric whose wrench size is unknown.  Nothing makes
\* Metrica unique: a table may hold the same metric twice.
Metricas == {"M8", "M10"}
Llaves == {0, 13}
Claves == Metricas \cup {"M999"}
Threads == {"t1", "t2"}

Dnom(m) == IF m = "M8" THEN 8 ELSE 10

Rows == {[Metrica |-> m, dnom_mm |-> Dnom(m), s_mm |-> l] : m \in Metricas, l \in Llaves}

Tables == UNION {[1..n -> Rows] : n \in 0..MaxRows}

----------------------------------------------------------------------------
\* Python values.
NoneDF == [isNone |-> TRUE, rows |-> <<>>]
DataFrame(t) == [isNone |-> FALSE, rows |-> t]

ListOut(l) == [kind |-> "list", list |-> l, val |-> 0, err |-> ""]
ValueOut(v) == [kind |-> "value", list |-> <<>>, val |-> v, err |-> ""]
Raise(e) == [kind |-> "raise", list |-> <<>>, val |-> 0, err |-> e]

\* What one invocation of SQLitePandasDF(path, tabla).sql_to_df() can do on
\* a store holding the rows t: return them as a DataFrame, return None, or
\* raise (the file is missing, the table is malformed).
LoadErrors == {"FileMissing", "Malformed"}
LoaderOutcomes(t) ==
    {[called |-> TRUE, raised |-> FALSE, err |-> "", df |-> DataFrame(t)],
     [called |-> TRUE, raised |-> FALSE, err |-> "", df |-> NoneDF]}
    \cup {[called |-> TRUE, raised |-> TRUE, err |-> e, df |-> NoneDF] : e \in LoadErrors}
NotCalled == [called |-> FALSE, raised |-> FALSE, err |-> "", df |-> NoneDF]

ReturnsTable(ld) == ld.called /\ ~ld.raised /\ ~ld.df.isNone

----------------------------------------------------------------------------
\* pandas primitives used by the accessors.

\* Variant of ColumnToList: the rows of unknown wrench size are left out.
ColumnToList_known(rows, col) ==
    LET known == SelectSeq(rows, LAMBDA r : r.s_mm # 0)
    IN  [i \in 1..Len(known) |-> known[i][col]]

\* df[col].to_list(): the column, one element per row, in row order.
ColumnToList(rows, col) == [i \in 1..Len(rows) |-> rows[i][col]]

\* df.loc[df['Metrica'] == metrica, col]: the column restricted to the rows
\* whose Metrica equals the key, in row order.
Loc(rows, metrica, col) ==
    ColumnToList(SelectSeq(rows, LAMBDA r : r.Metrica = metrica), col)

\* Variants of Item: the first element of several (as .iloc[0] gives), and 0
\* for an empty selection.
Item_first(series) ==
    IF Len(series) >= 1 THEN ValueOut(series[1]) ELSE Raise("ValueError")

Item_zero(series) ==
    IF Len(series) = 1 THEN ValueOut(series[1])
    ELSE IF Len(series) = 0 THEN ValueOut(0) ELSE Raise("ValueError")

\* Series.item(): the only element, ValueError for any other size.
Item(series) ==
    IF Len(series) = 1 THEN ValueOut(series[1]) ELSE Raise("ValueError")

----------------------------------------------------------------------------
\* DatosTamanoLlaves.  Every method is a function of the cache slot and of
\* what sql_to_df() does if it is invoked; it gives the new cache slot, the
\* number of loader invocations and the method's outcome.

\* Variants of load_dataframe: no test of the slot (every call loads); a
\* loader exception swallowed (the method returns None); a failed load
\* cached as an empty table.
load_dataframe_reload(cache, ld) ==
    IF ld.raised
    THEN [cache |-> cache, loads |-> 1, raised |-> TRUE, err |-> ld.err, df |-> NoneDF]
    ELSE [cache |-> ld.df, loads |-> 1, raised |-> FALSE, err |-> "", df |-> ld.df]

load_dataframe_swallow(cache, ld) ==
    IF cache.isNone
    THEN IF ld.raised
         THEN [cache |-> cache, loads |-> 1, raised |-> FALSE, err |-> "", df |-> NoneDF]
         ELSE [cache |-> ld.df, loads |-> 1, raised |-> FALSE, err |-> "", df |-> ld.df]
    ELSE [cache |-> cache, loads |-> 0, raised |-> FALSE, err |-> "", df |-> cache]

load_dataframe_cachefail(cache, ld) ==
    IF cache.isNone
    THEN IF ld.raised
         THEN [cache |-> DataFrame(<<>>), loads |-> 1, raised |-> TRUE, err |-> ld.err,
               df |-> NoneDF]
         ELSE [cache |-> ld.df, loads |-> 1, raised |-> FALSE, err |-> "", df |-> ld.df]
    ELSE [cache |-> cache, loads |-> 0, raised |-> FALSE, err |-> "", df |-> cache]

\* _load_dataframe, lines 53-56.  The loader is invoked only when the slot
\* is None; an exception leaves the assignment of line 55 undone.
load_dataframe(cache, ld) ==
    IF cache.isNone
    THEN IF ld.raised
         THEN [cache |-> cache, loads |-> 1, raised |-> TRUE, err |-> ld.err, df |-> NoneDF]
         ELSE [cache |-> ld.df, loads |-> 1, raised |-> FALSE, err |-> "", df |-> ld.df]
    ELSE [cache |-> cache, loads |-> 0, raised |-> FALSE, err |-> "", df |-> cache]

\* df[col].to_list() on what _load_dataframe returned; None is not
\* subscriptable.
Columna(r, col) ==
    [cache |-> r.cache, loads |-> r.loads,
     out |-> IF r.raised THEN Raise(r.err)
             ELSE IF r.df.isNone THEN Raise("TypeError")
             ELSE ListOut(ColumnToList(r.df.rows, col))]

\* Variant of Busca: the selection replaces the cached table.
Busca_inplace(r, metrica, col) ==
    [cache |-> IF r.cache.isNone THEN r.cache
               ELSE DataFrame(SelectSeq(r.cache.rows, LAMBDA x : x.Metrica = metrica)),
     loads |-> r.loads,
     out |-> IF r.raised THEN Raise(r.err)
             ELSE IF r.df.isNone THEN Raise("AttributeError")
             ELSE Item(Loc(r.df.rows, metrica, col))]

\* df.loc[df['Metrica'] == metrica, col].item() on what _load_dataframe
\* returned; None has no attribute loc.
Busca(r, metrica, col) ==
    [cache |-> r.cache, loads |-> r.loads,
     out |-> IF r.raised THEN Raise(r.err)
             ELSE IF r.df.isNone THEN Raise("AttributeError")
             ELSE Item(Loc(r.df.rows, metrica, col))]

metricas(cache, ld) == Columna(load_dataframe(cache, ld), "Metrica")

diametros_nominales(cache, ld) == Columna(load_dataframe(cache, ld), "dnom_mm")

diametro_nominal(cache, ld, metrica) ==
    Busca(load_dataframe(cache, ld), metrica, "dnom_mm")

tamanos_llave(cache, ld) == Columna(load_dataframe(cache, ld), "s_mm")

\* Variant of tamano_llave: the column of diametro_nominal is read.
tamano_llave_dnom(cache, ld, metrica) ==
    Busca(load_dataframe(cache, ld), metrica, "dnom_mm")

tamano_llave(cache, ld, metrica) ==
    Busca(load_dataframe(cache, ld), metrica, "s_mm")

----------------------------------------------------------------------------
\* Calls and their records.
Key(op, arg) == [op |-> op, arg |-> arg]

NoOut == [kind |-> "none", list |-> <<>>, val |-> 0, err |-> ""]
NoCall == [called |-> FALSE, key |-> Key("", ""), loaded |-> FALSE, out |-> NoOut]
NoLoad == [set |-> FALSE, rows |-> <<>>, at |-> 0]

\* __init__, lines 37-45: the cache slot starts as None.  The store holds
\* some table.
Init ==
    /\ tabla_db \in Tables
    /\ df_cache = NoneDF
    /\ loadCount = 0
    /\ nCalls = 0
    /\ res = NoCall
    /\ memo = NoCall
    /\ loaderOut = NotCalled
    /\ firstLoad = NoLoad
    /\ pc = [t \in Threads |-> "check"]
    /\ sawNone = [t \in Threads |-> FALSE]
    /\ tmp = [t \in Threads |-> NoneDF]
    /\ ret = [t \in Threads |-> NoneDF]
    /\ writeCount = 0

\* One accessor call, made on the instance by its single-threaded user: r is
\* what the method did, ld what the loader does if the method invokes it.
Call(key, r, ld) ==
    /\ nCalls < MaxCalls
    /\ df_cache' = r.cache
    /\ loadCount' = loadCount + r.loads
    /\ nCalls' = nCalls + 1
    /\ res' = [called |-> TRUE, key |-> key, loaded |-> ~r.cache.isNone, out |-> r.out]
    /\ \E keep \in BOOLEAN : memo' = IF keep THEN res ELSE memo
    /\ loaderOut' = IF r.loads > 0 THEN ld ELSE NotCalled
    /\ firstLoad' = IF ~firstLoad.set /\ r.loads > 0 /\ ReturnsTable(ld)
                    THEN [set |-> TRUE, rows |-> ld.df.rows, at |-> nCalls + 1]
                    ELSE firstLoad
    /\ UNCHANGED <<tabla_db, thrVars>>

CallMetricas ==
    \E ld \in LoaderOutcomes(tabla_db) :
        Call(Key("metricas", ""), metricas(df_cache, ld), ld)

CallDiametrosNominales ==
    \E ld \in LoaderOutcomes(tabla_db) :
        Call(Key("diametros_nominales", ""), diametros_nominales(df_cache, ld), ld)

CallDiametroNominal ==
    \E ld \in LoaderOutcomes(tabla_db), k \in Claves :
        Call(Key("diametro_nominal", k), diametro_nominal(df_cache, ld, k), ld)

CallTamanosLlave ==
    \E ld \in LoaderOutcomes(tabla_db) :
        Call(Key("tamanos_llave", ""), tamanos_llave(df_cache, ld), ld)

CallTamanoLlave ==
    \E ld \in LoaderOutcomes(tabla_db), k \in Claves :
        Call(Key("tamano_llave", k), tamano_llave(df_cache, ld, k), ld)

Next ==
    \/ CallMetricas
    \/ CallDiametrosNominales
    \/ CallDiametroNominal
    \/ CallTamanosLlave
    \/ CallTamanoLlave

Spec == Init /\ [][Next]_vars

----------------------------------------------------------------------------
\* Two threads make their first accessor call on the same fresh instance.
\* _load_dataframe takes no lock, so its steps interleave: the test of line
\* 53, the loader call of lines 54-55, the store of line 55, the return of
\* line 56.

\* Line 53: if self._df_cache is None.
T_Check(t) ==
    /\ pc[t] = "check"
    /\ sawNone' = [sawNone EXCEPT ![t] = df_cache.isNone]
    /\ pc' = [pc EXCEPT ![t] = IF df_cache.isNone THEN "load" ELSE "return"]
    /\ UNCHANGED <<tabla_db, df_cache, loadCount, tmp, ret, writeCount, seqVars>>

\* Variant of T_Load: the slot is tested again before the loader is invoked.
T_Load_recheck(t) ==
    /\ pc[t] = "load"
    /\ IF ~df_cache.isNone
       THEN /\ pc' = [pc EXCEPT ![t] = "return"]
            /\ UNCHANGED <<loadCount, tmp>>
       ELSE \E ld \in LoaderOutcomes(tabla_db) :
               /\ loadCount' = loadCount + 1
               /\ IF ld.raised
                  THEN /\ pc' = [pc EXCEPT ![t] = "raised"]
                       /\ UNCHANGED tmp
                  ELSE /\ pc' = [pc EXCEPT ![t] = "store"]
                       /\ tmp' = [tmp EXCEPT ![t] = ld.df]
    /\ UNCHANGED <<tabla_db, df_cache, sawNone, ret, writeCount, seqVars>>

\* Lines 54-55, right-hand side: sql_pd.sql_to_df() is invoked; an
\* exception ends the call.
T_Load(t) ==
    /\ pc[t] = "load"
    /\ \E ld \in LoaderOutcomes(tabla_db) :
          /\ loadCount' = loadCount + 1
          /\ IF ld.raised
             THEN /\ pc' = [pc EXCEPT ![t] = "raised"]
                  /\ UNCHANGED tmp
             ELSE /\ pc' = [pc EXCEPT ![t] = "store"]
                  /\ tmp' = [tmp EXCEPT ![t] = ld.df]
    /\ UNCHANGED <<tabla_db, df_cache, sawNone, ret, writeCount, seqVars>>

\* Line 55, the assignment to self._df_cache.
T_Store(t) ==
    /\ pc[t] = "store"
    /\ df_cache' = tmp[t]
    /\ writeCount' = writeCount + 1
    /\ pc' = [pc EXCEPT ![t] = "return"]
    /\ UNCHANGED <<tabla_db, loadCount, sawNone, tmp, ret, seqVars>>

\* Line 56: return self._df_cache.
T_Return(t) ==
    /\ pc[t] = "return"
    /\ ret' = [ret EXCEPT ![t] = df_cache]
    /\ pc' = [pc EXCEPT ![t] = "done"]
    /\ UNCHANGED <<tabla_db, df_cache, loadCount, sawNone, tmp, writeCount, seqVars>>

NextThreads ==
    \E t \in Threads :
        \/ T_Check(t)
        \/ T_Load(t)
        \/ T_Store(t)
        \/ T_Return(t)

SpecThreads == Init /\ [][NextThreads]_vars

----------------------------------------------------------------------------
\* Properties.

IsLookup(c) == c.called /\ c.key.op \in {"diametro_nominal", "tamano_llave"}

\* Number of rows of the cached table whose Metrica equals m.
Matches(m) ==
    Cardinality({i \in 1..Len(df_cache.rows) : df_cache.rows[i].Metrica = m})

\* C1, as stated: only the first accessor call invokes the loader, so the
\* load count is 1 after the first call and stays 1.
C1_OnlyFirstCallLoads == nCalls >= 1 => loadCount = 1

\* C1, amended: every call made while the cache is unset invokes the loader
\* once, and no call made after a load has returned a table invokes it.  The
\* load count is the number of calls for as long as no load has returned a
\* table, and stays at the number of the call whose load returned the table
\* ever after; it is 1 after the first call.
C1_LoadsUntilFirstTable ==
    /\ nCalls = 1 => loadCount = 1
    /\ df_cache.isNone => loadCount = nCalls
    /\ ~df_cache.isNone => firstLoad.set /\ loadCount = firstLoad.at
    /\ loadCount <= nCalls

C1_Witness ==
    /\ nCalls = 3
    /\ loadCount = 2
    /\ firstLoad.set
    /\ firstLoad.at = 2
    /\ ~loaderOut.called

\* C2: once the cache holds a loaded table no accessor call changes it: it
\* stays set and equal, rows, order and values, to the table the first
\* successful load returned, also after lookups that raise.
C2_CacheFrozen ==
    /\ firstLoad.set => ~df_cache.isNone /\ df_cache.rows = firstLoad.rows
    /\ ~df_cache.isNone => firstLoad.set /\ df_cache.rows = tabla_db

C2_Witness ==
    /\ firstLoad.set
    /\ firstLoad.at = 1
    /\ nCalls = 3
    /\ Len(df_cache.rows) = 2
    /\ IsLookup(res)
    /\ res.out.kind = "raise"
    /\ IsLookup(memo)
    /\ memo.out.kind = "value"

\* C3, as stated: for every index i at which metricas() holds the metric m,
\* diametro_nominal(m) is diametros_nominales()[i] and tamano_llave(m) is
\* tamanos_llave()[i].
C3_LookupMatchesColumns ==
    (IsLookup(res) /\ res.loaded) =>
        LET M == metricas(df_cache, NotCalled).out.list
            D == diametros_nominales(df_cache, NotCalled).out.list
            S == tamanos_llave(df_cache, NotCalled).out.list
        IN  \A i \in 1..Len(M) :
                M[i] = res.key.arg =>
                    /\ res.key.op = "diametro_nominal" => res.out = ValueOut(D[i])
                    /\ res.key.op = "tamano_llave" => res.out = ValueOut(S[i])

\* C3, amended: the same for every metric m that metricas() holds exactly
\* once, at index i; a stored wrench size of 0 is returned as 0.
C3_UniqueLookupMatchesColumns ==
    (IsLookup(res) /\ res.loaded) =>
        LET M == metricas(df_cache, NotCalled).out.list
            D == diametros_nominales(df_cache, NotCalled).out.list
            S == tamanos_llave(df_cache, NotCalled).out.list
        IN  \A i \in 1..Len(M) :
                (M[i] = res.key.arg
                 /\ Cardinality({j \in 1..Len(M) : M[j] = res.key.arg}) = 1) =>
                    /\ res.key.op = "diametro_nominal" => res.out = ValueOut(D[i])
                    /\ res.key.op = "tamano_llave" => res.out = ValueOut(S[i])

C3_Witness ==
    /\ res.called
    /\ res.loaded
    /\ res.key = Key("tamano_llave", "M10")
    /\ res.out = ValueOut(0)
    /\ Len(df_cache.rows) = 2
    /\ df_cache.rows[2].Metrica = "M10"
    /\ df_cache.rows[1].Metrica = "M8"
    /\ memo.key = Key("diametro_nominal", "M8")
    /\ memo.out = ValueOut(8)

\* C4, as stated: a lookup whose key matches no row raises, and what it
\* raises differs from what a lookup raises whose key matches several rows.
C4_NotFoundDistinct ==
    (IsLookup(res) /\ res.loaded /\ Matches(res.key.arg) = 0
     /\ IsLookup(memo) /\ memo.loaded /\ Matches(memo.key.arg) > 1) =>
        /\ res.out.kind = "raise"
        /\ memo.out.kind = "raise"
        /\ res.out.err # memo.out.err

\* C4, amended: a lookup whose key matches no row of the loaded table raises
\* the ValueError of Series.item() and returns no value; a lookup whose key
\* matches several rows raises the same error.
C4_NotFoundRaises ==
    /\ (IsLookup(res) /\ res.loaded /\ Matches(res.key.arg) = 0) =>
           res.out = Raise("ValueError")
    /\ (IsLookup(res) /\ res.loaded /\ Matches(res.key.arg) = 0
        /\ IsLookup(memo) /\ memo.loaded /\ Matches(memo.key.arg) > 1) =>
           res.out.err = memo.out.err

C4_Witness ==
    /\ IsLookup(res)
    /\ res.loaded
    /\ res.key.arg = "M999"
    /\ Len(df_cache.rows) = 2
    /\ res.out.kind = "raise"
    /\ IsLookup(memo)
    /\ memo.loaded
    /\ Matches(memo.key.arg) = 2

\* C5: a lookup whose key matches more than one row of the loaded table
\* raises (the ValueError of Series.item(), the code's ambiguous-result
\* error) and returns the value of none of the matching rows.
C5_AmbiguousRaises ==
    (IsLookup(res) /\ res.loaded /\ Matches(res.key.arg) > 1) =>
        /\ res.out.kind = "raise"
        /\ res.out.err = "ValueError"

C5_Witness ==
    /\ IsLookup(res)
    /\ res.loaded
    /\ res.key.op = "tamano_llave"
    /\ Matches(res.key.arg) = 2
    /\ df_cache.rows[1].s_mm # df_cache.rows[2].s_mm
    /\ res.out.kind = "raise"

\* C6: with the table loaded, metricas(), diametros_nominales() and
\* tamanos_llave() each return one element per stored row, the i-th element
\* being that field of the i-th stored row; two of them called one after
\* the other return sequences of the same length.
C6_ColumnsFollowRows ==
    /\ (res.called /\ res.loaded /\ ~IsLookup(res)) =>
           /\ res.out.kind = "list"
           /\ Len(res.out.list) = Len(tabla_db)
           /\ \A i \in 1..Len(tabla_db) :
                  /\ res.key.op = "metricas" => res.out.list[i] = tabla_db[i].Metrica
                  /\ res.key.op = "diametros_nominales" =>
                         res.out.list[i] = tabla_db[i].dnom_mm
                  /\ res.key.op = "tamanos_llave" => res.out.list[i] = tabla_db[i].s_mm
    /\ (res.called /\ res.loaded /\ ~IsLookup(res)
        /\ memo.called /\ memo.loaded /\ ~IsLookup(memo)) =>
           Len(res.out.list) = Len(memo.out.list)

C6_Witness ==
    /\ res.called
    /\ res.loaded
    /\ res.key.op = "tamanos_llave"
    /\ memo.called
    /\ memo.loaded
    /\ memo.key.op = "metricas"
    /\ Len(tabla_db) = 2
    /\ res.out.list = <<0, 13>>
    /\ memo.out.list = <<"M8", "M8">>

\* C7, as stated: two calls of the same accessor with the same argument
\* return identical results, whatever calls are made between them.
C7_SameCallSameResult ==
    (memo.called /\ res.called /\ memo.key = res.key) => memo.out = res.out

\* C7, amended: two calls of the same accessor with the same argument return
\* identical results, whatever calls are made between them, provided the
\* table was loaded when the first of the two returned.
C7_SameResultOnceLoaded ==
    (memo.called /\ memo.loaded /\ res.called /\ memo.key = res.key) =>
        memo.out = res.out

C7_Witness ==
    /\ nCalls = 3
    /\ firstLoad.at = 1
    /\ memo.called
    /\ memo.loaded
    /\ res.called
    /\ memo.key = res.key
    /\ res.key.op = "metricas"
    /\ Len(res.out.list) = 2

\* C8: when the loader raises during a call, the call raises that same
\* error: it is not caught, not replaced, and no value is returned.
C8_LoadErrorPropagates ==
    (loaderOut.called /\ loaderOut.raised) => res.out = Raise(loaderOut.err)

C8_Witness ==
    /\ loaderOut.called
    /\ loaderOut.raised
    /\ loaderOut.err = "Malformed"
    /\ res.called
    /\ res.out.kind = "raise"

\* C9: the test of the slot and its assignment are not atomic.  Every
\* thread that found the slot unset invokes the loader and, unless the loader
\* raises, writes the slot, whether or not another thread has loaded in the
\* meantime; with two threads the load count and the number of writes reach 2.
C9_UnguardedLoad ==
    /\ loadCount = Cardinality({t \in Threads : sawNone[t] /\ pc[t] # "load"})
    /\ writeCount =
           Cardinality({t \in Threads : sawNone[t] /\ pc[t] \in {"return", "done"}})

C9_Witness ==
    /\ \A t \in Threads : sawNone[t] /\ pc[t] = "done"
    /\ loadCount = 2
    /\ writeCount = 2

\* C10: a load that raises or returns None leaves the cache unset, and while
\* the cache is unset every call invokes the loader again; the cache is set
\* only by a load that returned a table.
C10_FailedLoadNotCached ==
    /\ (loaderOut.called /\ ~ReturnsTable(loaderOut)) => df_cache.isNone
    /\ (df_cache.isNone /\ nCalls > 0) => loaderOut.called /\ ~ReturnsTable(loaderOut)
    /\ (~df_cache.isNone /\ loaderOut.called) => ReturnsTable(loaderOut)

C10_Witness ==
    /\ nCalls = 3
    /\ loadCount = 3
    /\ memo.called
    /\ ~memo.loaded
    /\ memo.out.err = "TypeError"
    /\ ReturnsTable(loaderOut)
    /\ ~df_cache.isNone

====
